---- MODULE Spec2Model ----
(***************************************************************************)
(* literium: chained content types (content_type.rs), the wrap/unwrap     *)
(* protocol over the Content-Type header (types_chain.rs, header.rs) and  *)
(* the base64 / JSON / sealed-box codec adapters built on it.             *)
(*                                                                         *)
(* Text is a sequence of one-character strings; a Rust byte offset k is    *)
(* the position k+1 of the sequence, so s[a..b] is SubSeq(s, a+1, b).      *)
(***************************************************************************)
EXTENDS Integers, Sequences, FiniteSets, TLC

VARIABLES
    overflow_checks, \* build profile: TRUE = arithmetic overflow panics (debug/test)
    src,             \* ChainSpec: the text given to ContentType::new
    ct,              \* ChainSpec: the ContentType value [fulltype, typeoffs]
    hist,            \* ChainSpec: operations applied since new, each with the value it left
    msg,             \* Spec, TagSpec: the message (headers, body), or Consumed
    log,             \* Spec, CallSpec: the codec calls made so far, each with its input
                     \* and outcome; QuerySpec: what the iterator has returned so far
    ret,             \* TagSpec, QuerySpec: the last query call and what it returned
    iter             \* QuerySpec: the ContentTypeSubtypesIterator, or None

vars == <<overflow_checks, src, ct, hist, msg, log, ret, iter>>

----------------------------------------------------------------------------
(* Bounds of the model *)

\* longest generated source text
MaxLen == 3
\* longest sequence of push/pop operations on one chain
MaxOps == 4
\* longest generated base of a Content-Type value (before the appended tags)
MaxType == 1
\* longest pipeline of codec calls on one message
MaxSteps == 2
\* longest sequence of unconditional / with_type codec calls on one message
MaxCalls == 1
\* longest sequence of push/pop operations before the chain is queried
MaxQueryOps == 2
\* largest index given to get_subtype, besides usize::MAX
MaxIndex == 5
\* most calls of next on one iterator
MaxNext == 5

----------------------------------------------------------------------------
(* Option<T>, and the outcome of a panic *)

None == [some |-> FALSE]
Some(x) == [some |-> TRUE, val |-> x]
Panic == [panic |-> TRUE]

\* usize::MAX, at the width of the model checker's integers
USIZE_MAX == 2147483647

----------------------------------------------------------------------------
(* Text *)

SLASH == "/"
PLUS == "+"

\* all texts over alphabet cs of length at most n
RECURSIVE StrUpTo(_, _)
StrUpTo(cs, n) ==
    IF n = 0 THEN {<<>>}
    ELSE LET shorter == StrUpTo(cs, n - 1)
         IN shorter \cup {Append(s, c) : s \in shorter, c \in cs}

\* str::find(char): byte offset of the first occurrence, or None
RECURSIVE find_from(_, _, _)
find_from(s, c, k) ==
    IF k >= Len(s) THEN None
    ELSE IF s[k + 1] = c THEN Some(k)
    ELSE find_from(s, c, k + 1)

find(s, c) == find_from(s, c, 0)

\* &s[a..b]
Slice(s, a, b) == SubSeq(s, a + 1, b)

----------------------------------------------------------------------------
(* ContentType (content_type.rs) *)

\* faulty variant: the scan stops at the first '+'
new_loop_first_plus(s, typeoffs, off) ==
    LET subtype_end == find(Slice(s, off, Len(s)), PLUS)
    IN IF subtype_end.some
       THEN Append(Append(typeoffs, off + subtype_end.val), Len(s))
       ELSE Append(typeoffs, Len(s))

\* the loop of ContentType::new: off is the offset to scan from
RECURSIVE new_loop(_, _, _)
new_loop(s, typeoffs, off) ==
    LET subtype_end == find(Slice(s, off, Len(s)), PLUS)
    IN IF subtype_end.some
       THEN new_loop(s, Append(typeoffs, off + subtype_end.val), off + subtype_end.val + 1)
       ELSE Append(typeoffs, Len(s))

new(s) ==
    LET maintype_end == find(s, SLASH)
    IN [fulltype |-> s,
        typeoffs |-> IF maintype_end.some
                     THEN new_loop(s, <<maintype_end.val>>, maintype_end.val + 1)
                     ELSE <<Len(s)>>]

as_ref(c) == Slice(c.fulltype, 0, c.typeoffs[Len(c.typeoffs)])

\* faulty variant: reads up to the last offset instead of the first
get_type_rendered(c) == Slice(c.fulltype, 0, c.typeoffs[Len(c.typeoffs)])

get_type(c) == Slice(c.fulltype, 0, c.typeoffs[1])

num_subtypes(c) == Len(c.typeoffs) - 1

\* faulty variant: the slice starts at the delimiter
get_subtype_with_delimiter(c, index) ==
    LET len == num_subtypes(c)
    IN IF index < len
       THEN Some(Slice(c.fulltype, c.typeoffs[index + 1], c.typeoffs[index + 2]))
       ELSE None

get_subtype(c, index) ==
    LET len == num_subtypes(c)
    IN IF index < len
       THEN Some(Slice(c.fulltype, c.typeoffs[index + 1] + 1, c.typeoffs[index + 2]))
       ELSE None

\* num_subtypes() - 1 on usize: with overflow checks the subtraction panics at 0,
\* without them it wraps to usize::MAX
last_subtype(c, checks) ==
    IF num_subtypes(c) = 0
    THEN IF checks THEN Panic ELSE get_subtype(c, USIZE_MAX)
    ELSE get_subtype(c, num_subtypes(c) - 1)

\* faulty variant: drops every subtype at once
pop_subtype_all(c) ==
    [c EXCEPT !.typeoffs = <<c.typeoffs[1]>>]

\* faulty variant: the guard is off by one, the first subtype is never removed
pop_subtype_keep_first(c) ==
    IF num_subtypes(c) > 1
    THEN [c EXCEPT !.typeoffs = SubSeq(c.typeoffs, 1, Len(c.typeoffs) - 1)]
    ELSE c

pop_subtype(c) ==
    IF num_subtypes(c) > 0
    THEN [c EXCEPT !.typeoffs = SubSeq(c.typeoffs, 1, Len(c.typeoffs) - 1)]
    ELSE c

\* faulty variant: the delimiter is not written
push_subtype_no_delimiter(c, subtype) ==
    LET fulltype == c.fulltype \o subtype
    IN [fulltype |-> fulltype, typeoffs |-> Append(c.typeoffs, Len(fulltype))]

push_subtype(c, subtype) ==
    LET has_subtypes == num_subtypes(c) > 0
        fulltype == (c.fulltype \o <<IF has_subtypes THEN PLUS ELSE SLASH>>) \o subtype
    IN [fulltype |-> fulltype, typeoffs |-> Append(c.typeoffs, Len(fulltype))]

\* ContentTypeSubtypesIterator: the chain it borrows and the index of the next
\* subtype
iter_subtypes(c) == [content_type |-> c, subtype_index |-> 0]

\* faulty variant: the index is not advanced
next_no_advance(it) ==
    IF it.subtype_index < num_subtypes(it.content_type)
    THEN [it |-> it, val |-> get_subtype(it.content_type, it.subtype_index)]
    ELSE [it |-> it, val |-> None]

\* Iterator::next: the iterator after the call, and the item returned
next(it) ==
    IF it.subtype_index < num_subtypes(it.content_type)
    THEN [it |-> [it EXCEPT !.subtype_index = @ + 1],
          val |-> get_subtype(it.content_type, it.subtype_index)]
    ELSE [it |-> it, val |-> None]

----------------------------------------------------------------------------
(* Headers (header.rs).  A header value is a sequence of bytes; OBS stands for
   a byte >= 0x80, which a HeaderValue may hold but to_str() refuses, LF for a
   control byte, which no HeaderValue may hold. *)

OBS == "x80"
LF == "x0A"

CONTENT_TYPE == "Content-Type"
ACCEPT == "Accept"
HeaderNames == {CONTENT_TYPE, ACCEPT}

\* a message that was moved into a call and not returned
Consumed == [consumed |-> TRUE]

\* HeaderValue::try_from(&str): every byte must be >= 32 and not DEL, or a tab
HeaderValue_try_from(s) ==
    IF \A i \in 1 .. Len(s) : s[i] # LF THEN Some(s) ELSE None

\* HeaderValue::from_static(&'static str): panics unless every byte is visible
\* ASCII or a tab
HeaderValue_from_static(s) ==
    IF \A i \in 1 .. Len(s) : s[i] # LF /\ s[i] # OBS THEN Some(s) ELSE Panic

\* HeaderValue::to_str: every byte must be visible ASCII
to_str(v) ==
    IF \A i \in 1 .. Len(v) : v[i] # OBS THEN Some(v) ELSE None

get_headers(m) == m.headers

get_header(m, key) == get_headers(m)[key]

is_header(m, key, value) ==
    LET val == get_headers(m)[key]
    IN IF val.some THEN val.val = value ELSE FALSE

\* faulty variant: the header's bytes are returned whether or not they are text
get_header_str_lossy(m, key) == get_headers(m)[key]

get_header_str(m, key) ==
    LET val == get_headers(m)[key]
    IN IF val.some THEN to_str(val.val) ELSE None

set_header(m, key, value) == [m EXCEPT !.headers[key] = Some(value)]

\* the subtypes the codecs pass to unwrap_type / wrap_type
BASE64 == <<"b", "a", "s", "e", "6", "4">>
JSON == <<"j", "s", "o", "n">>
SEALEDBOX == <<"s", "e", "a", "l", "e", "d", "b", "o", "x">>

----------------------------------------------------------------------------
(* UnwrapType / WrapType (types_chain.rs) *)

\* faulty variant: the subtype is popped without comparing it
unwrap_type_unchecked(m, subtype, checks) ==
    LET mimetype == get_header_str(m, CONTENT_TYPE)
    IN IF mimetype.some
       THEN LET c == pop_subtype(new(mimetype.val))
                r == HeaderValue_try_from(as_ref(c))
            IN IF r.some THEN Some(r.val) ELSE None
       ELSE None

unwrap_type(m, subtype, checks) ==
    LET mimetype == get_header_str(m, CONTENT_TYPE)
    IN IF mimetype.some
       THEN LET c == new(mimetype.val)
                last == last_subtype(c, checks)
            IN IF last = Panic THEN Panic
               ELSE IF last = Some(subtype)
               THEN LET r == HeaderValue_try_from(as_ref(pop_subtype(c)))
                    IN IF r.some THEN Some(r.val) ELSE None
               ELSE None
       ELSE None

\* faulty variant: the tag is always joined with '+'
wrap_type_plus(m, subtype) ==
    LET mimetype == get_header_str(m, CONTENT_TYPE)
    IN IF mimetype.some
       THEN LET r == HeaderValue_try_from((mimetype.val \o <<PLUS>>) \o subtype)
            IN IF r.some THEN Some(r.val) ELSE None
       ELSE None

wrap_type(m, subtype) ==
    LET mimetype == get_header_str(m, CONTENT_TYPE)
    IN IF mimetype.some
       THEN LET c == push_subtype(new(mimetype.val), subtype)
                r == HeaderValue_try_from(as_ref(c))
            IN IF r.some THEN Some(r.val) ELSE None
       ELSE None

----------------------------------------------------------------------------
(* Results.  A body is Bytes (a sequence of bytes 0..255) or a typed value, here
   Vec<u8>; a call returns Ok(message) or Err(CodecError), or panics. *)

Bytes(b) == [kind |-> "Bytes", data |-> b]
Value(v) == [kind |-> "Value", data |-> v]

Ok(x) == [ok |-> TRUE, val |-> x]
Err == [ok |-> FALSE]

InvalidType == "InvalidType"
InvalidData == "InvalidData"

\* the outcome of a codec call: res is "Ok", a CodecError or "Panic"; native tells
\* whether the native operation was run; out is the message returned
Outcome(res, native, out) == [res |-> res, native |-> native, out |-> out]

----------------------------------------------------------------------------
(* base64 (base64.rs; base64lib::encode / decode, standard alphabet, padded) *)

\* the character of a 6-bit value: A-Z a-z 0-9 + /
b64_char(v) ==
    IF v < 26 THEN 65 + v
    ELSE IF v < 52 THEN 97 + (v - 26)
    ELSE IF v < 62 THEN 48 + (v - 52)
    ELSE IF v = 62 THEN 43 ELSE 47

\* the 6-bit value of a character, -1 for a byte outside the alphabet
b64_value(c) ==
    IF c >= 65 /\ c <= 90 THEN c - 65
    ELSE IF c >= 97 /\ c <= 122 THEN c - 97 + 26
    ELSE IF c >= 48 /\ c <= 57 THEN c - 48 + 52
    ELSE IF c = 43 THEN 62
    ELSE IF c = 47 THEN 63 ELSE -1

RECURSIVE b64_encode(_)
b64_encode(b) ==
    IF Len(b) = 0 THEN <<>>
    ELSE IF Len(b) = 1
    THEN <<b64_char(b[1] \div 4), b64_char((b[1] % 4) * 16), 61, 61>>
    ELSE IF Len(b) = 2
    THEN <<b64_char(b[1] \div 4), b64_char((b[1] % 4) * 16 + (b[2] \div 16)),
           b64_char((b[2] % 16) * 4), 61>>
    ELSE <<b64_char(b[1] \div 4), b64_char((b[1] % 4) * 16 + (b[2] \div 16)),
           b64_char((b[2] % 16) * 4 + (b[3] \div 64)), b64_char(b[3] % 64)>>
         \o b64_encode(SubSeq(b, 4, Len(b)))

\* the bytes of one group of four characters; '=' only as the last one or two
\* characters of the last group
b64_decode_quad(q, last) ==
    LET v == [i \in 1 .. 4 |-> b64_value(q[i])]
        b1 == v[1] * 4 + (v[2] \div 16)
        b2 == (v[2] % 16) * 16 + (v[3] \div 4)
        b3 == (v[3] % 4) * 64 + v[4]
    IN IF v[1] < 0 \/ v[2] < 0 THEN Err
       ELSE IF last /\ q[3] = 61 /\ q[4] = 61 THEN Ok(<<b1>>)
       ELSE IF v[3] < 0 THEN Err
       ELSE IF last /\ q[4] = 61 THEN Ok(<<b1, b2>>)
       ELSE IF v[4] < 0 THEN Err
       ELSE Ok(<<b1, b2, b3>>)

RECURSIVE b64_decode(_)
b64_decode(t) ==
    IF Len(t) = 0 THEN Ok(<<>>)
    ELSE IF Len(t) % 4 # 0 THEN Err
    ELSE LET head == b64_decode_quad(SubSeq(t, 1, 4), Len(t) = 4)
             tail == b64_decode(SubSeq(t, 5, Len(t)))
         IN IF head.ok /\ tail.ok THEN Ok(head.val \o tail.val) ELSE Err

\* faulty variant: the body is put into a new message without headers
decode_base64_native_new_message(m) ==
    LET body == b64_decode(m.body.data)
    IN IF body.ok
       THEN Ok([headers |-> [n \in HeaderNames |-> None], body |-> Bytes(body.val)])
       ELSE Err

\* DecodeBase64 for Request<Bytes> / Response<Bytes>: the parts are kept
decode_base64_native(m) ==
    LET body == b64_decode(m.body.data)
    IN IF body.ok THEN Ok([m EXCEPT !.body = Bytes(body.val)]) ELSE Err

\* map_err(|_| CodecError::InvalidData)
decode_base64(m) ==
    LET r == decode_base64_native(m)
    IN IF r.ok THEN Outcome("Ok", TRUE, r.val) ELSE Outcome(InvalidData, TRUE, Consumed)

\* faulty variant: the body is decoded before the type is looked at
decode_base64_auto_type_decode_first(m, checks) ==
    LET r == decode_base64(m)
        mimetype == unwrap_type(m, BASE64, checks)
    IN IF r.res # "Ok" THEN r
       ELSE IF mimetype = Panic THEN Outcome("Panic", FALSE, Consumed)
       ELSE IF mimetype.some
       THEN Outcome("Ok", TRUE, set_header(r.out, CONTENT_TYPE, mimetype.val))
       ELSE Outcome(InvalidType, FALSE, Consumed)

decode_base64_auto_type(m, checks) ==
    LET mimetype == unwrap_type(m, BASE64, checks)
    IN IF mimetype = Panic THEN Outcome("Panic", FALSE, Consumed)
       ELSE IF mimetype.some
       THEN LET r == decode_base64(m)
            IN IF r.res = "Ok"
               THEN Outcome("Ok", TRUE, set_header(r.out, CONTENT_TYPE, mimetype.val))
               ELSE r
       ELSE Outcome(InvalidType, FALSE, Consumed)

encode_base64_native(m) == Ok([m EXCEPT !.body = Bytes(b64_encode(m.body.data))])

encode_base64(m) ==
    LET r == encode_base64_native(m)
    IN IF r.ok THEN Outcome("Ok", TRUE, r.val) ELSE Outcome(InvalidData, TRUE, Consumed)

\* faulty variant: the header is left as it was
encode_base64_auto_type_no_header(m) ==
    LET mimetype == wrap_type(m, BASE64)
    IN IF mimetype.some THEN encode_base64(m) ELSE Outcome(InvalidType, FALSE, Consumed)

encode_base64_auto_type(m) ==
    LET mimetype == wrap_type(m, BASE64)
    IN IF mimetype.some
       THEN LET r == encode_base64(m)
            IN IF r.res = "Ok"
               THEN Outcome("Ok", TRUE, set_header(r.out, CONTENT_TYPE, mimetype.val))
               ELSE r
       ELSE Outcome(InvalidType, FALSE, Consumed)

----------------------------------------------------------------------------
(* JSON (json.rs; serde_json::to_vec / from_slice at T = Vec<u8>, as in the
   tests).  The texts decoded here hold no whitespace. *)

\* the decimal digits of a u8
json_number(n) ==
    IF n < 10 THEN <<48 + n>>
    ELSE IF n < 100 THEN <<48 + (n \div 10), 48 + (n % 10)>>
    ELSE <<48 + (n \div 100), 48 + ((n \div 10) % 10), 48 + (n % 10)>>

RECURSIVE json_elements(_)
json_elements(v) ==
    IF Len(v) = 0 THEN <<>>
    ELSE IF Len(v) = 1 THEN json_number(v[1])
    ELSE json_number(v[1]) \o <<44>> \o json_elements(Tail(v))

\* serde_json::to_vec(&Vec<u8>): [n,n,...]
json_to_vec(v) == <<91>> \o json_elements(v) \o <<93>>

IsDigit(c) == c >= 48 /\ c <= 57

\* a JSON number that fits u8: digits, no leading zero, at most 255
json_parse_number(t) ==
    IF Len(t) = 0 \/ Len(t) > 3 \/ \E i \in 1 .. Len(t) : ~IsDigit(t[i]) THEN Err
    ELSE IF Len(t) > 1 /\ t[1] = 48 THEN Err
    ELSE LET n == IF Len(t) = 1 THEN t[1] - 48
                  ELSE IF Len(t) = 2 THEN (t[1] - 48) * 10 + (t[2] - 48)
                  ELSE (t[1] - 48) * 100 + (t[2] - 48) * 10 + (t[3] - 48)
         IN IF n <= 255 THEN Ok(n) ELSE Err

\* the elements of t, a non-empty text between the brackets, separated by ','
RECURSIVE json_parse_elements(_)
json_parse_elements(t) ==
    LET comma == find(t, 44)
    IN IF comma.some
       THEN LET head == json_parse_number(Slice(t, 0, comma.val))
                tail == json_parse_elements(Slice(t, comma.val + 1, Len(t)))
            IN IF head.ok /\ tail.ok THEN Ok(<<head.val>> \o tail.val) ELSE Err
       ELSE LET only == json_parse_number(t)
            IN IF only.ok THEN Ok(<<only.val>>) ELSE Err

\* serde_json::from_slice::<Vec<u8>>
json_from_slice(t) ==
    IF Len(t) < 2 \/ t[1] # 91 \/ t[Len(t)] # 93 THEN Err
    ELSE IF Len(t) = 2 THEN Ok(<<>>)
    ELSE json_parse_elements(Slice(t, 1, Len(t) - 1))

decode_json_native(m) ==
    LET body == json_from_slice(m.body.data)
    IN IF body.ok THEN Ok([m EXCEPT !.body = Value(body.val)]) ELSE Err

decode_json(m) ==
    LET r == decode_json_native(m)
    IN IF r.ok THEN Outcome("Ok", TRUE, r.val) ELSE Outcome(InvalidData, TRUE, Consumed)

decode_json_auto_type(m, checks) ==
    LET mimetype == unwrap_type(m, JSON, checks)
    IN IF mimetype = Panic THEN Outcome("Panic", FALSE, Consumed)
       ELSE IF mimetype.some
       THEN LET r == decode_json(m)
            IN IF r.res = "Ok"
               THEN Outcome("Ok", TRUE, set_header(r.out, CONTENT_TYPE, mimetype.val))
               ELSE r
       ELSE Outcome(InvalidType, FALSE, Consumed)

encode_json_native(m) == Ok([m EXCEPT !.body = Bytes(json_to_vec(m.body.data))])

encode_json(m) ==
    LET r == encode_json_native(m)
    IN IF r.ok THEN Outcome("Ok", TRUE, r.val) ELSE Outcome(InvalidData, TRUE, Consumed)

encode_json_auto_type(m) ==
    LET mimetype == wrap_type(m, JSON)
    IN IF mimetype.some
       THEN LET r == encode_json(m)
            IN IF r.res = "Ok"
               THEN Outcome("Ok", TRUE, set_header(r.out, CONTENT_TYPE, mimetype.val))
               ELSE r
       ELSE Outcome(InvalidType, FALSE, Consumed)

----------------------------------------------------------------------------
(* Sealed box (sealedbox.rs; sodiumoxide sealedbox::seal / open).  The cipher
   is a stand-in with the shape of the real one: the box opens with the key
   pair it was sealed for, and the text is authenticated.  A box is the
   sender's ephemeral key, a tag over the plain text, and the shifted text. *)

PublicKeys == {1, 2}
SecretKeys == {11, 12}
\* gen_keypair() returns (pk, SecretKeyOf(pk))
SecretKeyOf(pk) == pk + 10
\* the ephemeral keys a seal may draw
EphemeralKeys == {1, 2}

RECURSIVE SumBytes(_)
SumBytes(b) == IF Len(b) = 0 THEN 0 ELSE b[1] + SumBytes(Tail(b))

seal_tag(plain, pk, eph) == (SumBytes(plain) + 97 * pk + eph) % 256

\* sealedbox::seal(m, pk), with the ephemeral key it drew
seal(plain, pk, eph) ==
    <<128 + eph, seal_tag(plain, pk, eph)>>
        \o [i \in 1 .. Len(plain) |-> (plain[i] + pk + eph) % 256]

\* sealedbox::open(c, pk, sk)
open(c, pk, sk) ==
    IF Len(c) < 2 \/ c[1] - 128 \notin EphemeralKeys \/ sk # SecretKeyOf(pk) THEN Err
    ELSE LET eph == c[1] - 128
             plain == [i \in 1 .. Len(c) - 2 |-> (c[i + 2] + 256 - pk - eph) % 256]
         IN IF seal_tag(plain, pk, eph) = c[2] THEN Ok(plain) ELSE Err

decrypt_sealedbox_native(m, public_key, secret_key) ==
    LET body == open(m.body.data, public_key, secret_key)
    IN IF body.ok THEN Ok([m EXCEPT !.body = Bytes(body.val)]) ELSE Err

decrypt_sealedbox(m, public_key, secret_key) ==
    LET r == decrypt_sealedbox_native(m, public_key, secret_key)
    IN IF r.ok THEN Outcome("Ok", TRUE, r.val) ELSE Outcome(InvalidData, TRUE, Consumed)

decrypt_sealedbox_auto_type(m, public_key, secret_key, checks) ==
    LET mimetype == unwrap_type(m, SEALEDBOX, checks)
    IN IF mimetype = Panic THEN Outcome("Panic", FALSE, Consumed)
       ELSE IF mimetype.some
       THEN LET r == decrypt_sealedbox(m, public_key, secret_key)
            IN IF r.res = "Ok"
               THEN Outcome("Ok", TRUE, set_header(r.out, CONTENT_TYPE, mimetype.val))
               ELSE r
       ELSE Outcome(InvalidType, FALSE, Consumed)

encrypt_sealedbox_native(m, public_key, eph) ==
    Ok([m EXCEPT !.body = Bytes(seal(m.body.data, public_key, eph))])

encrypt_sealedbox(m, public_key, eph) ==
    LET r == encrypt_sealedbox_native(m, public_key, eph)
    IN IF r.ok THEN Outcome("Ok", TRUE, r.val) ELSE Outcome(InvalidData, TRUE, Consumed)

encrypt_sealedbox_auto_type(m, public_key, eph) ==
    LET mimetype == wrap_type(m, SEALEDBOX)
    IN IF mimetype.some
       THEN LET r == encrypt_sealedbox(m, public_key, eph)
            IN IF r.res = "Ok"
               THEN Outcome("Ok", TRUE, set_header(r.out, CONTENT_TYPE, mimetype.val))
               ELSE r
       ELSE Outcome(InvalidType, FALSE, Consumed)

----------------------------------------------------------------------------
(* The with_type calls of the three codecs: decoding compares the Content-Type
   header with the given mimetype first; encoding sets the header to the given
   literal afterwards. *)

\* faulty variant: the header is not compared
decode_base64_with_type_unchecked(m, mimetype) == decode_base64(m)

decode_base64_with_type(m, mimetype) ==
    IF is_header(m, CONTENT_TYPE, mimetype)
    THEN decode_base64(m)
    ELSE Outcome(InvalidType, FALSE, Consumed)

decode_json_with_type(m, mimetype) ==
    IF is_header(m, CONTENT_TYPE, mimetype)
    THEN decode_json(m)
    ELSE Outcome(InvalidType, FALSE, Consumed)

decrypt_sealedbox_with_type(m, public_key, secret_key, mimetype) ==
    IF is_header(m, CONTENT_TYPE, mimetype)
    THEN decrypt_sealedbox(m, public_key, secret_key)
    ELSE Outcome(InvalidType, FALSE, Consumed)

\* .map(|mut new_self| { new_self.set_header("Content-Type",
\*                         HeaderValue::from_static(mimetype)); new_self })
with_static_type(r, mimetype) ==
    IF r.res = "Ok"
    THEN LET value == HeaderValue_from_static(mimetype)
         IN IF value = Panic
            THEN Outcome("Panic", TRUE, Consumed)
            ELSE Outcome("Ok", TRUE, set_header(r.out, CONTENT_TYPE, value.val))
    ELSE r

\* faulty variant: a Content-Type that is already there is kept
encode_base64_with_type_keep(m, mimetype) ==
    IF get_header(m, CONTENT_TYPE).some
    THEN encode_base64(m)
    ELSE with_static_type(encode_base64(m), mimetype)

encode_base64_with_type(m, mimetype) == with_static_type(encode_base64(m), mimetype)

encode_json_with_type(m, mimetype) == with_static_type(encode_json(m), mimetype)

encrypt_sealedbox_with_type(m, public_key, eph, mimetype) ==
    with_static_type(encrypt_sealedbox(m, public_key, eph), mimetype)

----------------------------------------------------------------------------
(* The messages the codecs are given *)

TypeAlphabet == {"a", SLASH, OBS}

TypeBases == StrUpTo(TypeAlphabet, MaxType) \cup {<<"a", SLASH, "a">>}

TypeSuffixes ==
    {<<>>,
     <<PLUS>> \o JSON,
     <<PLUS>> \o BASE64,
     <<PLUS>> \o SEALEDBOX,
     <<PLUS>> \o JSON \o <<PLUS>> \o BASE64}

ContentTypes == {b \o x : b \in TypeBases, x \in TypeSuffixes}

\* "h!", not itself base64 text
PlainText == <<104, 33>>
\* the value of the JSON tests, shortened
TestVec == <<13, 1, 0>>

InitBodies ==
    {Bytes(PlainText),
     Bytes(b64_encode(PlainText)),
     Bytes(<<43>> \o b64_encode(PlainText)),
     Bytes(json_to_vec(TestVec)),
     Bytes(<<123, 49, 51, 125>>),
     Bytes(b64_encode(json_to_vec(TestVec))),
     Bytes(seal(PlainText, 1, 1)),
     Value(TestVec)}

InitMessages ==
    {[headers |-> [n \in HeaderNames |-> IF n = CONTENT_TYPE THEN t ELSE a], body |-> b] :
        t \in {None} \cup {Some(x) : x \in ContentTypes},
        a \in {None, Some(<<"a">>)},
        b \in InitBodies}

MsgInit ==
    /\ overflow_checks \in BOOLEAN
    /\ msg \in InitMessages
    /\ log = <<>>
    /\ ret = None
    /\ iter = None
    /\ src = <<>>
    /\ ct = new(src)
    /\ hist = <<>>

----------------------------------------------------------------------------
(* Spec: a message through a pipeline of auto-type codec calls.  A call takes
   the message by value: after an error or a panic there is no message left. *)

Call(op, codec, public_key, secret_key, o) ==
    /\ Len(log) < MaxSteps
    /\ log' = Append(log, [op |-> op, codec |-> codec,
                           public_key |-> public_key, secret_key |-> secret_key,
                           input |-> msg, res |-> o.res, native |-> o.native,
                           out |-> o.out])
    /\ msg' = o.out
    /\ UNCHANGED <<overflow_checks, src, ct, hist, ret, iter>>

IsBytes(m) == m # Consumed /\ m.body.kind = "Bytes"
IsValue(m) == m # Consumed /\ m.body.kind = "Value"

DecodeBase64AutoType ==
    /\ IsBytes(msg)
    /\ Call("decode_auto_type", BASE64, 0, 0, decode_base64_auto_type(msg, overflow_checks))

EncodeBase64AutoType ==
    /\ IsBytes(msg)
    /\ Call("encode_auto_type", BASE64, 0, 0, encode_base64_auto_type(msg))

DecodeJsonAutoType ==
    /\ IsBytes(msg)
    /\ Call("decode_auto_type", JSON, 0, 0, decode_json_auto_type(msg, overflow_checks))

EncodeJsonAutoType ==
    /\ IsValue(msg)
    /\ Call("encode_auto_type", JSON, 0, 0, encode_json_auto_type(msg))

DecryptSealedboxAutoType(public_key, secret_key) ==
    /\ IsBytes(msg)
    /\ Call("decode_auto_type", SEALEDBOX, public_key, secret_key,
            decrypt_sealedbox_auto_type(msg, public_key, secret_key, overflow_checks))

EncryptSealedboxAutoType(public_key) ==
    /\ IsBytes(msg)
    /\ \E eph \in EphemeralKeys :
          Call("encode_auto_type", SEALEDBOX, public_key, 0,
               encrypt_sealedbox_auto_type(msg, public_key, eph))

Next ==
    \/ DecodeBase64AutoType
    \/ EncodeBase64AutoType
    \/ DecodeJsonAutoType
    \/ EncodeJsonAutoType
    \/ \E pk \in PublicKeys, sk \in SecretKeys : DecryptSealedboxAutoType(pk, sk)
    \/ \E pk \in PublicKeys : EncryptSealedboxAutoType(pk)

Spec == MsgInit /\ [][Next]_vars

----------------------------------------------------------------------------
(* CallSpec: the unconditional and the with_type calls of the codecs on a
   message.  As in Spec a call takes the message by value. *)

\* the mimetypes given to the with_type calls; the last is no valid header value
Mimetypes ==
    {<<"a", SLASH, "a">>,
     <<"a", SLASH, "a", PLUS>> \o BASE64,
     <<OBS>>}

TypedCall(op, codec, mimetype, public_key, secret_key, o) ==
    /\ Len(log) < MaxCalls
    /\ log' = Append(log, [op |-> op, codec |-> codec, mimetype |-> mimetype,
                           public_key |-> public_key, secret_key |-> secret_key,
                           input |-> msg, res |-> o.res, native |-> o.native,
                           out |-> o.out])
    /\ msg' = o.out
    /\ UNCHANGED <<overflow_checks, src, ct, hist, ret, iter>>

DecodeBase64 ==
    /\ IsBytes(msg)
    /\ TypedCall("decode", BASE64, <<>>, 0, 0, decode_base64(msg))

DecodeBase64WithType(mimetype) ==
    /\ IsBytes(msg)
    /\ TypedCall("decode_with_type", BASE64, mimetype, 0, 0,
                 decode_base64_with_type(msg, mimetype))

EncodeBase64 ==
    /\ IsBytes(msg)
    /\ TypedCall("encode", BASE64, <<>>, 0, 0, encode_base64(msg))

EncodeBase64WithType(mimetype) ==
    /\ IsBytes(msg)
    /\ TypedCall("encode_with_type", BASE64, mimetype, 0, 0,
                 encode_base64_with_type(msg, mimetype))

DecodeJson ==
    /\ IsBytes(msg)
    /\ TypedCall("decode", JSON, <<>>, 0, 0, decode_json(msg))

DecodeJsonWithType(mimetype) ==
    /\ IsBytes(msg)
    /\ TypedCall("decode_with_type", JSON, mimetype, 0, 0,
                 decode_json_with_type(msg, mimetype))

EncodeJson ==
    /\ IsValue(msg)
    /\ TypedCall("encode", JSON, <<>>, 0, 0, encode_json(msg))

EncodeJsonWithType(mimetype) ==
    /\ IsValue(msg)
    /\ TypedCall("encode_with_type", JSON, mimetype, 0, 0,
                 encode_json_with_type(msg, mimetype))

DecryptSealedbox(public_key, secret_key) ==
    /\ IsBytes(msg)
    /\ TypedCall("decode", SEALEDBOX, <<>>, public_key, secret_key,
                 decrypt_sealedbox(msg, public_key, secret_key))

DecryptSealedboxWithType(public_key, secret_key, mimetype) ==
    /\ IsBytes(msg)
    /\ TypedCall("decode_with_type", SEALEDBOX, mimetype, public_key, secret_key,
                 decrypt_sealedbox_with_type(msg, public_key, secret_key, mimetype))

EncryptSealedbox(public_key) ==
    /\ IsBytes(msg)
    /\ \E eph \in EphemeralKeys :
          TypedCall("encode", SEALEDBOX, <<>>, public_key, 0,
                    encrypt_sealedbox(msg, public_key, eph))

EncryptSealedboxWithType(public_key, mimetype) ==
    /\ IsBytes(msg)
    /\ \E eph \in EphemeralKeys :
          TypedCall("encode_with_type", SEALEDBOX, mimetype, public_key, 0,
                    encrypt_sealedbox_with_type(msg, public_key, eph, mimetype))

CallNext ==
    \/ DecodeBase64
    \/ \E mimetype \in Mimetypes : DecodeBase64WithType(mimetype)
    \/ EncodeBase64
    \/ \E mimetype \in Mimetypes : EncodeBase64WithType(mimetype)
    \/ DecodeJson
    \/ \E mimetype \in Mimetypes : DecodeJsonWithType(mimetype)
    \/ EncodeJson
    \/ \E mimetype \in Mimetypes : EncodeJsonWithType(mimetype)
    \/ \E pk \in PublicKeys, sk \in SecretKeys : DecryptSealedbox(pk, sk)
    \/ \E pk \in PublicKeys, sk \in SecretKeys, mimetype \in Mimetypes :
          DecryptSealedboxWithType(pk, sk, mimetype)
    \/ \E pk \in PublicKeys : EncryptSealedbox(pk)
    \/ \E pk \in PublicKeys, mimetype \in Mimetypes : EncryptSealedboxWithType(pk, mimetype)

CallSpec == MsgInit /\ [][CallNext]_vars

----------------------------------------------------------------------------
(* TagSpec: unwrap_type / wrap_type called on a message, which they borrow *)

QueryTags == {BASE64, JSON, SEALEDBOX, <<"a">>, <<"a", LF>>}

UnwrapType(subtype) ==
    /\ ret' = [op |-> "unwrap_type", subtype |-> subtype, on |-> msg,
               val |-> unwrap_type(msg, subtype, overflow_checks)]
    /\ UNCHANGED <<overflow_checks, src, ct, hist, msg, log, iter>>

WrapType(subtype) ==
    /\ ret' = [op |-> "wrap_type", subtype |-> subtype, on |-> msg,
               val |-> wrap_type(msg, subtype)]
    /\ UNCHANGED <<overflow_checks, src, ct, hist, msg, log, iter>>

TagNext ==
    \/ \E t \in QueryTags : UnwrapType(t)
    \/ \E t \in QueryTags : WrapType(t)

TagSpec == MsgInit /\ [][TagNext]_vars

----------------------------------------------------------------------------
(* Properties of the codec calls, stated over the log *)

NCalls == Len(log)

ContentTypeOf(m) == m.headers[CONTENT_TYPE]

EndsWith(t, x) == Len(t) >= Len(x) /\ SubSeq(t, Len(t) - Len(x) + 1, Len(t)) = x
DropLast(t, n) == SubSeq(t, 1, Len(t) - n)

\* the last tag of a Content-Type text as the specification defines it: none
\* when there is no tag
LastTag(t) ==
    LET c == new(t)
    IN IF num_subtypes(c) = 0 THEN None ELSE get_subtype(c, num_subtypes(c) - 1)

\* the text with '+' and tag appended, '/' and tag when it has no tag yet
WithTag(t, tag) ==
    (t \o <<IF num_subtypes(new(t)) = 0 THEN SLASH ELSE PLUS>>) \o tag

\* the native decoder / encoder behind a logged call, on the call's input
NativeDecode(e) ==
    IF e.codec = BASE64 THEN decode_base64_native(e.input)
    ELSE IF e.codec = JSON THEN decode_json_native(e.input)
    ELSE decrypt_sealedbox_native(e.input, e.public_key, e.secret_key)

\* call i + 1 decodes, with the codec and the key pair of call i, what call i encoded
RoundTripAt(i) ==
    /\ i + 1 <= NCalls
    /\ log[i].op = "encode_auto_type" /\ log[i + 1].op = "decode_auto_type"
    /\ log[i + 1].codec = log[i].codec
    /\ log[i].codec = SEALEDBOX =>
          /\ log[i + 1].public_key = log[i].public_key
          /\ log[i + 1].secret_key = SecretKeyOf(log[i].public_key)

RoundTripOk(i) ==
    /\ log[i].res = "Ok"
    /\ RoundTripAt(i) =>
          /\ log[i + 1].res = "Ok"
          /\ ContentTypeOf(log[i + 1].out) = ContentTypeOf(log[i].input)
          /\ log[i + 1].out.body = log[i].input.body

\* C1 as stated: for every message that has a Content-Type header,
\* encode_auto_type followed by decode_auto_type with the same codec (and key
\* pair) succeeds and gives back the Content-Type value and the body.
C1_Original ==
    \A i \in 1 .. NCalls :
        (log[i].op = "encode_auto_type" /\ ContentTypeOf(log[i].input).some)
           => RoundTripOk(i)

\* C1 (amended): for every message whose Content-Type header reads as text
\* (visible ASCII), encode_auto_type followed by decode_auto_type with the same
\* codec (and key pair) succeeds and gives back the Content-Type value and the body.
C1_RoundTrip ==
    \A i \in 1 .. NCalls :
        (log[i].op = "encode_auto_type" /\ get_header_str(log[i].input, CONTENT_TYPE).some)
           => RoundTripOk(i)

\* a sealed-box round trip of a message whose type has no tag yet
C1_Witness ==
    /\ NCalls = 2 /\ RoundTripAt(1)
    /\ log[1].codec = SEALEDBOX
    /\ ContentTypeOf(log[1].input) = Some(<<"a">>)
    /\ log[2].res = "Ok" /\ msg.body = Bytes(PlainText)

\* C2: decode_auto_type looks at the tag first: when unwrap_type gives none the
\* result is InvalidType and the native decoder is not run (also when the body
\* would not decode); when it gives a new type the decoder runs, the result is
\* InvalidData when it fails, and when it succeeds the message is returned with
\* Content-Type set to the new type.
C2_TypeCheckedBeforeDecode ==
    \A i \in 1 .. NCalls :
        log[i].op = "decode_auto_type" =>
            LET e == log[i]
                new_type == unwrap_type(e.input, e.codec, overflow_checks)
                decoded == NativeDecode(e)
            IN /\ new_type = None =>
                     e.res = InvalidType /\ ~e.native /\ e.out = Consumed
               /\ (new_type # None /\ new_type # Panic) =>
                     /\ e.native
                     /\ ~decoded.ok => e.res = InvalidData /\ e.out = Consumed
                     /\ decoded.ok =>
                           /\ e.res = "Ok"
                           /\ ContentTypeOf(e.out) = Some(new_type.val)
                           /\ e.out.body = decoded.val.body

\* a message with the wrong tag and a body that does not decode: InvalidType
C2_Witness ==
    /\ NCalls = 1 /\ log[1].op = "decode_auto_type" /\ log[1].codec = BASE64
    /\ ContentTypeOf(log[1].input) = Some(<<"a", SLASH, "a", PLUS>> \o JSON)
    /\ ~NativeDecode(log[1]).ok
    /\ log[1].res = InvalidType /\ ~log[1].native

\* C3: encode_auto_type on a message for which wrap_type gives none (no
\* Content-Type header among them) fails with InvalidType without running the
\* native encoder; when wrap_type gives a value and the encoder succeeds, the
\* output's Content-Type is that value, the old type with the codec's tag appended.
C3_EncodeAutoType ==
    \A i \in 1 .. NCalls :
        log[i].op = "encode_auto_type" =>
            LET e == log[i]
                new_type == wrap_type(e.input, e.codec)
            IN /\ ~ContentTypeOf(e.input).some => new_type = None
               /\ new_type = None => e.res = InvalidType /\ ~e.native /\ e.out = Consumed
               /\ (new_type.some /\ e.res = "Ok") =>
                     /\ ContentTypeOf(e.out) = Some(new_type.val)
                     /\ new_type.val = WithTag(ContentTypeOf(e.input).val, e.codec)

\* a value encoded as JSON on a type that has no tag yet: "/json" is appended
C3_Witness ==
    /\ NCalls = 1 /\ log[1].op = "encode_auto_type" /\ log[1].codec = JSON
    /\ ContentTypeOf(log[1].input) = Some(<<"a">>)
    /\ log[1].res = "Ok"
    /\ ContentTypeOf(msg) = Some(<<"a", SLASH>> \o JSON)
    /\ msg.body = Bytes(json_to_vec(TestVec))

JsonBase64 == <<PLUS>> \o JSON \o <<PLUS>> \o BASE64

\* what C6 says of a Content-Type for which Chained(t) holds
LifoFor(Chained(_)) ==
    /\ \A i \in 1 .. NCalls :
          LET e == log[i]
              t == ContentTypeOf(e.input)
          IN (e.op = "decode_auto_type" /\ t.some /\ Chained(t.val)) =>
                /\ e.codec = JSON => e.res = InvalidType
                /\ e.codec = BASE64 =>
                      /\ e.native
                      /\ e.res = "Ok" =>
                            /\ ContentTypeOf(e.out) = Some(DropLast(t.val, 1 + Len(BASE64)))
                            /\ (i + 1 <= NCalls /\ log[i + 1].op = "decode_auto_type"
                                   /\ log[i + 1].codec = JSON) =>
                                  /\ log[i + 1].native
                                  /\ log[i + 1].res = "Ok" =>
                                        ContentTypeOf(log[i + 1].out)
                                          = Some(DropLast(t.val, Len(JsonBase64)))
    /\ \A i \in 1 .. NCalls :
          (log[i].op = "decode_auto_type" /\ log[i].native) =>
             /\ ContentTypeOf(log[i].input).some
             /\ LastTag(ContentTypeOf(log[i].input).val) = Some(log[i].codec)

EndsInJsonBase64(t) == EndsWith(t, JsonBase64)

\* C6 as stated: on a Content-Type ending in "+json+base64" the base64 auto-type
\* decode passes the type check and leaves a type ending in "+json", which the
\* JSON auto-type decode then accepts and strips; the JSON decode first fails
\* with InvalidType; a decode passes the type check only when the last tag is
\* the codec's name.
C6_Original == LifoFor(EndsInJsonBase64)

TaggedJsonBase64(t) ==
    /\ EndsWith(t, JsonBase64)
    /\ to_str(t).some
    /\ find(DropLast(t, Len(JsonBase64)), SLASH).some

\* C6 (amended): the same, for a Content-Type that reads as text and has a '/'
\* before the final "+json+base64".
C6_LastInFirstOut == LifoFor(TaggedJsonBase64)

\* base64 then JSON decoded from a body that is base64 of JSON
C6_Witness ==
    /\ NCalls = 2
    /\ log[1].op = "decode_auto_type" /\ log[1].codec = BASE64 /\ log[1].res = "Ok"
    /\ log[2].op = "decode_auto_type" /\ log[2].codec = JSON /\ log[2].res = "Ok"
    /\ ContentTypeOf(log[1].input) = Some(<<"a", SLASH, "a">> \o JsonBase64)
    /\ ContentTypeOf(msg) = Some(<<"a", SLASH, "a">>)
    /\ msg.body = Value(TestVec)

----------------------------------------------------------------------------
(* Properties of unwrap_type / wrap_type, stated over the last call *)

\* C4: unwrap_type gives none, and does not panic, whenever the Content-Type
\* header is absent or its last tag is not the given one (a value without '/'
\* has no tag); when the last tag of the header's text is the given one it gives
\* the text without that tag and its delimiter.
C4_UnwrapNoneWithoutPanic ==
    (ret # None /\ ret.op = "unwrap_type") =>
        LET t == ContentTypeOf(ret.on)
        IN /\ (~t.some \/ LastTag(t.val) # Some(ret.subtype)) => ret.val = None
           /\ (t.some /\ to_str(t.val).some /\ LastTag(t.val) = Some(ret.subtype)) =>
                 ret.val = Some(DropLast(t.val, 1 + Len(ret.subtype)))

\* what C5 says of wrap_type, for the messages that Typed(m) holds of
WrapEffect(Typed(_)) ==
    (ret # None /\ ret.op = "wrap_type") =>
        /\ msg = ret.on
        /\ ~Typed(ret.on) => ret.val = None
        /\ Typed(ret.on) =>
              LET text == WithTag(ContentTypeOf(ret.on).val, ret.subtype)
              IN HeaderValue_try_from(text).some => ret.val = Some(text)

HasContentType(m) == ContentTypeOf(m).some
HasTextContentType(m) == get_header_str(m, CONTENT_TYPE).some

\* C5 as stated: wrap_type gives none when there is no Content-Type header,
\* otherwise the header's value followed by '+' and the tag ('/' and the tag when
\* it has no tag), provided that is a valid header value; the message is unchanged.
C5_Original == WrapEffect(HasContentType)

\* C5 (amended): wrap_type gives none when there is no Content-Type header that
\* reads as text (visible ASCII), otherwise the header's text followed by '+' and
\* the tag ('/' and the tag when it has no tag), provided that is a valid header
\* value; the message is unchanged.
C5_WrapAppendsTag == WrapEffect(HasTextContentType)

\* a tag joined with '/' to a type without tags
C5_Witness ==
    /\ ret # None /\ ret.op = "wrap_type" /\ ret.subtype = BASE64
    /\ ContentTypeOf(msg) = Some(<<"a">>)
    /\ ret.val = Some(<<"a", SLASH>> \o BASE64)

----------------------------------------------------------------------------
(* ChainSpec: a ContentType under any sequence of push_subtype / pop_subtype *)

Alphabet == {"a", SLASH, PLUS}

APPLICATION == <<"a", "p", "p", "l", "i", "c", "a", "t", "i", "o", "n">>
SBOX == <<"s", "b", "o", "x">>

\* the chain of the repository's tests
TestSource == APPLICATION \o <<SLASH>> \o JSON \o <<PLUS>> \o SBOX \o <<PLUS>> \o BASE64

Sources == StrUpTo(Alphabet, MaxLen) \cup {TestSource}

PushTexts == {<<>>, <<"b">>, <<PLUS, "a">>}

ChainInit ==
    /\ overflow_checks \in BOOLEAN
    /\ src \in Sources
    /\ ct = new(src)
    /\ hist = <<>>
    /\ msg = Consumed
    /\ log = <<>>
    /\ ret = None
    /\ iter = None

PushSubtype(t) ==
    /\ Len(hist) < MaxOps
    /\ ct' = push_subtype(ct, t)
    /\ hist' = Append(hist, [op |-> "push", text |-> t, ct |-> ct'])
    /\ UNCHANGED <<overflow_checks, src, msg, log, ret, iter>>

PopSubtype ==
    /\ Len(hist) < MaxOps
    /\ ct' = pop_subtype(ct)
    /\ hist' = Append(hist, [op |-> "pop", text |-> <<>>, ct |-> ct'])
    /\ UNCHANGED <<overflow_checks, src, msg, log, ret, iter>>

ChainNext ==
    \/ \E t \in PushTexts : PushSubtype(t)
    \/ PopSubtype

ChainSpec == ChainInit /\ [][ChainNext]_vars

----------------------------------------------------------------------------
(* Properties of the chain, stated over the recorded history *)

\* the chain before the i-th operation
Before(i) == IF i = 1 THEN new(src) ELSE hist[i - 1].ct

NOps == Len(hist)

Delimiters == {SLASH, PLUS}

\* the effect of one pop_subtype: p before, c after
PopEffect(p, c) ==
    LET n == num_subtypes(p)
    IN IF n > 0
       THEN /\ num_subtypes(c) = n - 1
            /\ \E d \in Delimiters :
                  as_ref(p) = (as_ref(c) \o <<d>>) \o get_subtype(p, n - 1).val
            /\ \A j \in 0 .. n - 2 : get_subtype(c, j) = get_subtype(p, j)
       ELSE /\ num_subtypes(c) = 0
            /\ as_ref(c) = as_ref(p)

\* C7: pop_subtype on a chain with subtypes removes exactly the last one (the
\* rendered text loses the last subtype and the delimiter before it, the other
\* subtypes stay); on a chain without subtypes it changes nothing; three pops on
\* application/json+sbox+base64 render application/json+sbox, application/json,
\* application.
C7_PopRemovesLast ==
    /\ \A i \in 1 .. NOps : hist[i].op = "pop" => PopEffect(Before(i), hist[i].ct)
    /\ (src = TestSource /\ NOps >= 3 /\ \A i \in 1 .. 3 : hist[i].op = "pop")
          => /\ as_ref(hist[1].ct) = APPLICATION \o <<SLASH>> \o JSON \o <<PLUS>> \o SBOX
             /\ as_ref(hist[2].ct) = APPLICATION \o <<SLASH>> \o JSON
             /\ as_ref(hist[3].ct) = APPLICATION

\* a no-op pop on a chain without subtypes, later a pop that removes a pushed one
C7_Witness ==
    /\ NOps = 3
    /\ hist[1].op = "pop" /\ num_subtypes(new(src)) = 0
    /\ hist[2].op = "push"
    /\ hist[3].op = "pop" /\ num_subtypes(hist[2].ct) = 1 /\ num_subtypes(ct) = 0

\* the effect push_subtype is specified to have: p before, c after
PushEffect(p, t, c) ==
    /\ as_ref(c) = (as_ref(p) \o <<IF num_subtypes(p) = 0 THEN SLASH ELSE PLUS>>) \o t
    /\ num_subtypes(c) = num_subtypes(p) + 1
    /\ last_subtype(c, overflow_checks) = Some(t)

\* C8: push_subtype(text) on any chain, freshly parsed or reached by pushes and
\* pops, renders the previous rendering followed by '+' (or '/' when there was no
\* subtype) and text, adds one subtype, and makes text the last subtype.
C8_PushAppendsToRender ==
    \A i \in 1 .. NOps :
        hist[i].op = "push" => PushEffect(Before(i), hist[i].text, hist[i].ct)

\* src is "A/B": it has a '/', and no '+' after the first one
IsBaseType(s) ==
    /\ find(s, SLASH).some
    /\ ~find(Slice(s, find(s, SLASH).val + 1, Len(s)), PLUS).some

\* the first n operations are pushes / the operations n+1 .. 2n are pops
PushesOnly(n) == \A i \in 1 .. n : hist[i].op = "push"
ThenPops(n) == \A i \in n + 1 .. 2 * n : hist[i].op = "pop"

\* C9 as stated: after pushing t1..tn onto "A/B" there are n subtypes, subtype
\* i is ti, and n pops lead back to "A/B" with no subtype.
C9_Original ==
    IsBaseType(src) =>
        /\ PushesOnly(NOps) =>
              /\ num_subtypes(ct) = NOps
              /\ \A i \in 1 .. NOps : get_subtype(ct, i - 1) = Some(hist[i].text)
        /\ \A n \in 0 .. NOps :
              (NOps = 2 * n /\ PushesOnly(n) /\ ThenPops(n))
                 => as_ref(ct) = src /\ num_subtypes(ct) = 0

\* C9 (amended): "A/B" itself has one subtype, B; after pushing t1..tn there are
\* n+1 subtypes, subtype 0 is B and subtype i is ti, and n pops lead back to the
\* rendering "A/B" with the one subtype B.
C9_PushThenPopAll ==
    IsBaseType(src) =>
        LET B == Slice(src, find(src, SLASH).val + 1, Len(src))
        IN /\ PushesOnly(NOps) =>
                 /\ num_subtypes(ct) = NOps + 1
                 /\ get_subtype(ct, 0) = Some(B)
                 /\ \A i \in 1 .. NOps : get_subtype(ct, i) = Some(hist[i].text)
           /\ \A n \in 0 .. NOps :
                 (NOps = 2 * n /\ PushesOnly(n) /\ ThenPops(n))
                    => /\ as_ref(ct) = src
                       /\ num_subtypes(ct) = 1
                       /\ get_subtype(ct, 0) = Some(B)

\* two different texts pushed onto "a/a", then both popped
C9_Witness ==
    /\ src = <<"a", SLASH, "a">>
    /\ NOps = 4 /\ PushesOnly(2) /\ ThenPops(2)
    /\ hist[1].text # hist[2].text
    /\ num_subtypes(hist[2].ct) = 3

\* C10: push_subtype directly followed by pop_subtype leaves the rendered text
\* and the number of subtypes as they were, also on a chain that was popped
\* before (its backing text is longer than the rendering) and on one without
\* subtypes.
C10_PushPopIdentity ==
    \A i \in 2 .. NOps :
        (hist[i - 1].op = "push" /\ hist[i].op = "pop")
           => /\ as_ref(hist[i].ct) = as_ref(Before(i - 1))
              /\ num_subtypes(hist[i].ct) = num_subtypes(Before(i - 1))

\* push then pop on a chain popped down to no subtype, its backing text longer
\* than its rendering
C10_Witness ==
    /\ NOps = 3
    /\ hist[1].op = "pop" /\ hist[2].op = "push" /\ hist[3].op = "pop"
    /\ num_subtypes(hist[1].ct) = 0
    /\ Len(hist[1].ct.fulltype) > Len(as_ref(hist[1].ct))
    /\ hist[2].text # <<>>

----------------------------------------------------------------------------
(* Properties of ContentType::new and get_type *)

\* the numbers of set S in increasing order
RECURSIVE Ascending(_)
Ascending(S) ==
    IF S = {} THEN <<>>
    ELSE LET m == CHOOSE x \in S : \A y \in S : x <= y
         IN <<m>> \o Ascending(S \ {m})

\* the offsets of character c in text s
OffsetsOf(s, c) == {i \in 0 .. Len(s) - 1 : s[i + 1] = c}

HasSlash(s) == OffsetsOf(s, SLASH) # {}

FirstSlash(s) == CHOOSE i \in OffsetsOf(s, SLASH) : \A j \in OffsetsOf(s, SLASH) : i <= j

\* the '+' characters after the first '/'
PlusAfterSlash(s) == {i \in OffsetsOf(s, PLUS) : i > FirstSlash(s)}

\* C11: a chain parsed from a text without '/' has no subtype and the one offset
\* Len(text); otherwise its offsets are the offset of the first '/', the offsets
\* of the '+' after that '/' in increasing order, and Len(text), so that there is
\* one subtype more than there are '+' after the first '/'.  The freshly parsed
\* chain renders as the text; application/json+sbox+base64 has the subtypes json,
\* sbox, base64.
C11_NewOffsets ==
    hist = <<>> =>
        /\ ~HasSlash(src) => ct.typeoffs = <<Len(src)>> /\ num_subtypes(ct) = 0
        /\ HasSlash(src) =>
              /\ ct.typeoffs = (<<FirstSlash(src)>> \o Ascending(PlusAfterSlash(src)))
                                   \o <<Len(src)>>
              /\ num_subtypes(ct) = 1 + Cardinality(PlusAfterSlash(src))
        /\ as_ref(ct) = src
        /\ src = TestSource =>
              /\ num_subtypes(ct) = 3
              /\ get_subtype(ct, 0) = Some(JSON)
              /\ get_subtype(ct, 1) = Some(SBOX)
              /\ get_subtype(ct, 2) = Some(BASE64)

\* a freshly parsed chain whose text has a '+' before the '/' and one after it
C11_Witness ==
    /\ hist = <<>>
    /\ src = <<PLUS, SLASH, PLUS>>
    /\ ct.typeoffs = <<1, 2, 3>>

\* the text before the first '/', or the whole text
BaseOf(s) == IF HasSlash(s) THEN SubSeq(s, 1, FirstSlash(s)) ELSE s

\* C14: get_type of a chain parsed from a text is the text before its first '/',
\* or the whole text when it has none, and it is the same after every push_subtype
\* and pop_subtype.
C14_BaseTypeStable ==
    /\ get_type(new(src)) = BaseOf(src)
    /\ get_type(ct) = BaseOf(src)
    /\ \A i \in 1 .. NOps : get_type(hist[i].ct) = BaseOf(src)

\* pushes and pops on a parsed chain whose base type is followed by subtypes, down
\* to where the backing text is longer than the rendering, and a push after that
C14_Witness ==
    /\ HasSlash(src) /\ BaseOf(src) # <<>>
    /\ NOps >= 3
    /\ hist[NOps - 1].op = "pop" /\ hist[NOps].op = "push" /\ hist[NOps].text # <<>>
    /\ Len(hist[NOps - 1].ct.fulltype) > Len(as_ref(hist[NOps - 1].ct))
    /\ as_ref(ct) # src

----------------------------------------------------------------------------
(* The chain against a stack of subtypes *)

\* the subtypes written in text s: the pieces between the first '/', the '+'
\* after it, and the end
ParsedTags(s) ==
    IF ~HasSlash(s) THEN <<>>
    ELSE LET B == (<<FirstSlash(s)>> \o Ascending(PlusAfterSlash(s))) \o <<Len(s)>>
         IN [j \in 1 .. Len(B) - 1 |-> SubSeq(s, B[j] + 2, B[j + 1])]

\* the stack after the first i recorded operations
RECURSIVE AbsTags(_)
AbsTags(i) ==
    IF i = 0 THEN ParsedTags(src)
    ELSE LET p == AbsTags(i - 1)
         IN IF hist[i].op = "push" THEN Append(p, hist[i].text)
            ELSE IF p = <<>> THEN p
            ELSE SubSeq(p, 1, Len(p) - 1)

\* the texts of a stack joined by '+'
RECURSIVE JoinTags(_)
JoinTags(tags) ==
    IF Len(tags) = 0 THEN <<>>
    ELSE IF Len(tags) = 1 THEN tags[1]
    ELSE (JoinTags(SubSeq(tags, 1, Len(tags) - 1)) \o <<PLUS>>) \o tags[Len(tags)]

AbsRender(tags) ==
    IF tags = <<>> THEN BaseOf(src) ELSE (BaseOf(src) \o <<SLASH>>) \o JoinTags(tags)

\* chain c shows exactly the stack tags
Refines(c, tags) ==
    /\ num_subtypes(c) = Len(tags)
    /\ \A j \in 1 .. Len(tags) : get_subtype(c, j - 1) = Some(tags[j])
    /\ get_subtype(c, Len(tags)) = None
    /\ last_subtype(c, overflow_checks) = IF tags = <<>> THEN None ELSE Some(tags[Len(tags)])
    /\ as_ref(c) = AbsRender(tags)

\* C19: after any sequence of push_subtype and pop_subtype on a parsed chain, the
\* number of subtypes, every subtype, the last subtype and the rendered text are
\* those of a stack that starts with the subtypes written in the text, where push
\* appends and pop removes the last one if any; and a push_subtype(t) directly
\* after a pop_subtype makes t the last subtype and renders the popped rendering,
\* '+' (or '/' when no subtype was left), and t.
C19_RefinesStack ==
    /\ \A i \in 0 .. NOps : Refines(Before(i + 1), AbsTags(i))
    /\ \A i \in 2 .. NOps :
          (hist[i - 1].op = "pop" /\ hist[i].op = "push")
             => /\ last_subtype(hist[i].ct, overflow_checks) = Some(hist[i].text)
                /\ \E d \in Delimiters :
                      as_ref(hist[i].ct) = (as_ref(hist[i - 1].ct) \o <<d>>) \o hist[i].text

\* C20: in every state reached from new by push_subtype and pop_subtype, the last
\* offset is the length of the backing text.
C20_LastOffsetIsLength ==
    /\ ct.typeoffs[Len(ct.typeoffs)] = Len(ct.fulltype)
    /\ \A i \in 1 .. NOps :
          hist[i].ct.typeoffs[Len(hist[i].ct.typeoffs)] = Len(hist[i].ct.fulltype)

----------------------------------------------------------------------------
(* QuerySpec: a ContentType reached by a few push_subtype / pop_subtype calls is
   read: get_subtype, last_subtype, and an iterator over the subtypes.  The
   iterator borrows the chain, which is not changed while it is read. *)

Indexes == 0 .. MaxIndex \cup {USIZE_MAX}

QueryPushSubtype(t) ==
    /\ Len(hist) < MaxQueryOps
    /\ ret = None /\ iter = None
    /\ PushSubtype(t)

QueryPopSubtype ==
    /\ Len(hist) < MaxQueryOps
    /\ ret = None /\ iter = None
    /\ PopSubtype

GetSubtype(index) ==
    /\ iter = None
    /\ ret' = [op |-> "get_subtype", index |-> index, val |-> get_subtype(ct, index)]
    /\ UNCHANGED <<overflow_checks, src, ct, hist, msg, log, iter>>

LastSubtype ==
    /\ iter = None
    /\ ret' = [op |-> "last_subtype", val |-> last_subtype(ct, overflow_checks)]
    /\ UNCHANGED <<overflow_checks, src, ct, hist, msg, log, iter>>

IterSubtypes ==
    /\ iter' = Some(iter_subtypes(ct))
    /\ log' = <<>>
    /\ ret' = [op |-> "iter_subtypes"]
    /\ UNCHANGED <<overflow_checks, src, ct, hist, msg>>

IterNext ==
    /\ iter # None
    /\ Len(log) < MaxNext
    /\ LET r == next(iter.val)
       IN /\ iter' = Some(r.it)
          /\ log' = Append(log, r.val)
          /\ ret' = [op |-> "next", val |-> r.val]
    /\ UNCHANGED <<overflow_checks, src, ct, hist, msg>>

QueryNext ==
    \/ \E t \in PushTexts : QueryPushSubtype(t)
    \/ QueryPopSubtype
    \/ \E index \in Indexes : GetSubtype(index)
    \/ LastSubtype
    \/ IterSubtypes
    \/ IterNext

QuerySpec == ChainInit /\ [][QueryNext]_vars

----------------------------------------------------------------------------
(* Properties of the reads, stated over the last call and the iterator *)

\* &fulltype[a + 1 .. b] does not panic: the range is ordered and inside the text
SliceInRange(c, a, b) == a + 1 <= b /\ b <= Len(c.fulltype)

\* text t lies strictly between the delimiter at offset a and the boundary at
\* offset b of chain c, neither of which is part of it
StrictlyBetween(c, a, b, t) ==
    /\ c.fulltype[a + 1] \in Delimiters
    /\ Slice(c.fulltype, 0, b) = Append(Slice(c.fulltype, 0, a), c.fulltype[a + 1]) \o t
    /\ Len(t) = b - a - 1

\* C12: get_subtype(index) gives none exactly when index >= num_subtypes(), for
\* every index and every chain reached by pushes and pops, and never panics; for
\* a smaller index it gives the text strictly between the delimiter that opens
\* subtype index and the next boundary, without either of them.
C12_GetSubtype ==
    (ret # None /\ ret.op = "get_subtype") =>
        LET n == num_subtypes(ct)
            i == ret.index
        IN /\ ret.val # Panic
           /\ (ret.val = None) <=> (i >= n)
           /\ i < n =>
                 /\ SliceInRange(ct, ct.typeoffs[i + 1], ct.typeoffs[i + 2])
                 /\ StrictlyBetween(ct, ct.typeoffs[i + 1], ct.typeoffs[i + 2], ret.val.val)

\* the middle subtype of a chain that was popped and pushed again is read, and
\* an index past the end
C12_Witness ==
    /\ ret # None /\ ret.op = "get_subtype"
    /\ NOps = 2 /\ hist[1].op = "pop" /\ hist[2].op = "push"
    /\ num_subtypes(ct) = 3
    /\ ret.index = 1 /\ ret.val = Some(SBOX)

\* C13: last_subtype gives none on a chain without subtypes and get_subtype of
\* the last index otherwise, and does not panic: without subtypes the
\* subtraction num_subtypes() - 1 is not made.
C13_LastSubtypeGuarded ==
    (ret # None /\ ret.op = "last_subtype") =>
        /\ ret.val # Panic
        /\ ret.val = IF num_subtypes(ct) = 0 THEN None
                     ELSE get_subtype(ct, num_subtypes(ct) - 1)

\* what an iterator over chain c returns at its k-th call of next, k = 1, 2, ...
Yield(c, k) == IF k - 1 < num_subtypes(c) THEN get_subtype(c, k - 1) ELSE None

\* C18: the iterator returns subtype 0, 1, ..., num_subtypes() - 1 in that order
\* and none from then on; every iter_subtypes gives an iterator that starts at
\* subtype 0, also when an earlier one was part way; the chain renders the same
\* and has as many subtypes as when the iterator was made.
C18_IterSubtypes ==
    iter # None =>
        /\ \A k \in 1 .. Len(log) : log[k] = Yield(ct, k)
        /\ (ret # None /\ ret.op = "iter_subtypes") =>
              log = <<>> /\ next(iter.val).val = Yield(ct, 1)
        /\ as_ref(ct) = as_ref(Before(NOps + 1))
        /\ num_subtypes(ct) = num_subtypes(Before(NOps + 1))
        /\ (src = TestSource /\ hist = <<>> /\ Len(log) >= 4) =>
              SubSeq(log, 1, 4) = <<Some(JSON), Some(SBOX), Some(BASE64), None>>

\* an iterator over a chain of two subtypes, one pushed after a pop, has returned
\* both and none twice
C18_Witness ==
    /\ iter # None
    /\ NOps = 2 /\ hist[1].op = "pop" /\ hist[2].op = "push"
    /\ num_subtypes(ct) = 2
    /\ Len(log) = 4 /\ log[1] # None /\ log[2] # None /\ log[1] # log[2]
    /\ log[3] = None /\ log[4] = None

----------------------------------------------------------------------------
(* Properties of the unconditional and the with_type calls, stated over the log *)

\* the native encoder behind a logged call succeeds on the call's input, whatever
\* ephemeral key a sealed box draws
NativeEncodeOk(e) ==
    IF e.codec = BASE64 THEN encode_base64_native(e.input).ok
    ELSE IF e.codec = JSON THEN encode_json_native(e.input).ok
    ELSE \A eph \in EphemeralKeys : encrypt_sealedbox_native(e.input, e.public_key, eph).ok

\* m is the input of call e with its body encoded by the codec of e
EncodedBody(e, m) ==
    IF e.codec = BASE64 THEN m.body = encode_base64_native(e.input).val.body
    ELSE IF e.codec = JSON THEN m.body = encode_json_native(e.input).val.body
    ELSE \E eph \in EphemeralKeys :
            m.body = encrypt_sealedbox_native(e.input, e.public_key, eph).val.body

\* C15: decode_with_type on a message whose Content-Type is absent or differs
\* from the given mimetype gives InvalidType and does not run the decoder; when
\* the header equals the mimetype the decoder runs, its failure gives
\* InvalidData, and on success the body is decoded and the Content-Type (as every
\* header) is as it was.
C15_DecodeWithType ==
    \A i \in 1 .. NCalls :
        log[i].op = "decode_with_type" =>
            LET e == log[i]
                t == ContentTypeOf(e.input)
                decoded == NativeDecode(e)
            IN /\ (~t.some \/ t.val # e.mimetype) =>
                     e.res = InvalidType /\ ~e.native /\ e.out = Consumed
               /\ (t.some /\ t.val = e.mimetype) =>
                     /\ e.native
                     /\ ~decoded.ok => e.res = InvalidData /\ e.out = Consumed
                     /\ decoded.ok =>
                           /\ e.res = "Ok"
                           /\ ContentTypeOf(e.out) = t
                           /\ e.out.headers = e.input.headers
                           /\ e.out.body = decoded.val.body

\* base64 text under a Content-Type that differs from the mimetype by its tag:
\* InvalidType, not decoded
C15_Witness ==
    /\ NCalls = 1 /\ log[1].op = "decode_with_type" /\ log[1].codec = BASE64
    /\ log[1].input.body = Bytes(b64_encode(PlainText))
    /\ ContentTypeOf(log[1].input) = Some(<<"a", SLASH, "a", PLUS>> \o JSON)
    /\ log[1].mimetype = <<"a", SLASH, "a", PLUS>> \o BASE64
    /\ log[1].res = InvalidType /\ ~log[1].native

\* what C16 says of encode_with_type, for the literals that Literal(m) holds of
EncodeWithTypeEffect(Literal(_)) ==
    \A i \in 1 .. NCalls :
        log[i].op = "encode_with_type" =>
            LET e == log[i]
            IN /\ e.res # InvalidType
               /\ e.native
               /\ (Literal(e.mimetype) /\ NativeEncodeOk(e)) =>
                     /\ e.res = "Ok"
                     /\ ContentTypeOf(e.out) = Some(e.mimetype)
                     /\ EncodedBody(e, e.out)
                     /\ e.out.headers[ACCEPT] = e.input.headers[ACCEPT]

AnyLiteral(s) == TRUE

\* every byte visible ASCII or a tab
ValidHeaderText(s) == \A i \in 1 .. Len(s) : s[i] # LF /\ s[i] # OBS

\* C16 as stated: encode_with_type does not look at the Content-Type that is
\* there; whenever the native encoder succeeds, the output has the given literal
\* as its Content-Type, whatever the input had; the result is never InvalidType.
C16_Original == EncodeWithTypeEffect(AnyLiteral)

\* C16 (amended): the same for a literal that is a valid header value; with any
\* other literal the call panics once the native encoder has succeeded.
C16_EncodeWithType ==
    /\ EncodeWithTypeEffect(ValidHeaderText)
    /\ \A i \in 1 .. NCalls :
          (log[i].op = "encode_with_type" /\ ~ValidHeaderText(log[i].mimetype)
              /\ NativeEncodeOk(log[i]))
             => log[i].res = "Panic" /\ log[i].native

\* a message typed a/a+json encoded as base64 with the literal a/a: the header
\* is the literal, not a chain of the old type
C16_Witness ==
    /\ NCalls = 1 /\ log[1].op = "encode_with_type" /\ log[1].codec = BASE64
    /\ ContentTypeOf(log[1].input) = Some(<<"a", SLASH, "a", PLUS>> \o JSON)
    /\ log[1].mimetype = <<"a", SLASH, "a">>
    /\ log[1].res = "Ok"
    /\ ContentTypeOf(msg) = Some(<<"a", SLASH, "a">>)
    /\ msg.body = Bytes(b64_encode(log[1].input.body.data))

\* C17: the unconditional decode and encode calls run the native operation,
\* report its failure as InvalidData (never InvalidType), and on success return
\* the message with the new body and every header as it was, with or without a
\* Content-Type.
C17_UnconditionalKeepsHeaders ==
    \A i \in 1 .. NCalls :
        LET e == log[i]
        IN /\ e.op = "decode" =>
                 /\ e.native
                 /\ ~NativeDecode(e).ok => e.res = InvalidData /\ e.out = Consumed
                 /\ NativeDecode(e).ok =>
                       /\ e.res = "Ok"
                       /\ e.out.headers = e.input.headers
                       /\ e.out.body = NativeDecode(e).val.body
           /\ e.op = "encode" =>
                 /\ e.native
                 /\ e.res # InvalidType
                 /\ NativeEncodeOk(e) =>
                       /\ e.res = "Ok"
                       /\ e.out.headers = e.input.headers
                       /\ EncodedBody(e, e.out)

\* base64 text decoded under a Content-Type that has no base64 tag, and an
\* Accept header: the body is decoded, both headers are kept
C17_Witness ==
    /\ NCalls = 1 /\ log[1].op = "decode" /\ log[1].codec = BASE64
    /\ ContentTypeOf(log[1].input) = Some(<<"a", SLASH, "a", PLUS>> \o JSON)
    /\ log[1].input.headers[ACCEPT] # None
    /\ log[1].res = "Ok"
    /\ msg.headers = log[1].input.headers
    /\ msg.body = Bytes(PlainText)

----------------------------------------------------------------------------
(* The offsets of the chain *)

\* the offsets of chain c are at least one, strictly increasing, and none is
\* past the end of the backing text
OffsetsWellFormed(c) ==
    /\ Len(c.typeoffs) >= 1
    /\ \A j \in 1 .. Len(c.typeoffs) - 1 : c.typeoffs[j] < c.typeoffs[j + 1]
    /\ \A j \in 1 .. Len(c.typeoffs) : c.typeoffs[j] >= 0 /\ c.typeoffs[j] <= Len(c.fulltype)

\* the ranges that get_type, get_subtype and as_ref slice are inside the text
ReadsInRange(c) ==
    /\ c.typeoffs[1] <= Len(c.fulltype)
    /\ c.typeoffs[Len(c.typeoffs)] <= Len(c.fulltype)
    /\ \A i \in 0 .. num_subtypes(c) - 1 :
          SliceInRange(c, c.typeoffs[i + 1], c.typeoffs[i + 2])

\* C21: after new on any text (empty, ending in '/' or '+', with adjacent '+')
\* and any sequence of push_subtype (any text, the empty one too) and
\* pop_subtype, the offsets are non-empty, strictly increasing and at most the
\* length of the backing text, so that get_type, get_subtype and as_ref slice
\* inside it.
C21_OffsetsWellFormed ==
    /\ OffsetsWellFormed(new(src)) /\ ReadsInRange(new(src))
    /\ OffsetsWellFormed(ct) /\ ReadsInRange(ct)
    /\ \A i \in 1 .. NOps : OffsetsWellFormed(hist[i].ct) /\ ReadsInRange(hist[i].ct)

\* a text of adjacent '+' ending in '+', popped, then the empty text pushed twice
C21_Witness ==
    /\ src = <<SLASH, PLUS, PLUS>>
    /\ NOps = 3
    /\ hist[1].op = "pop"
    /\ hist[2].op = "push" /\ hist[2].text = <<>>
    /\ hist[3].op = "push" /\ hist[3].text = <<>>
    /\ ct.typeoffs = <<0, 1, 2, 4, 5>>

====
